---- MODULE Spec2Model ----
(***************************************************************************)
(* Model of src/app.py: the /page handler of restricted-personal-pages.    *)
(*                                                                         *)
(* The configuration document (config.yaml) is an ordered mapping of page  *)
(* names to page entries.  It is modelled as a sequence of records, in     *)
(* document order, each carrying its key in the field "name".              *)
(*                                                                         *)
(* Strings (page names, aliases, request names, cookies) are sequences of  *)
(* character code points, so that str.lower() and the key ordering of      *)
(* yaml.dump are computed rather than assumed.  IP addresses are opaque    *)
(* tokens 1..NumIPs.                                                       *)
(*                                                                         *)
(* Two specifications share the definitions of the handler:                *)
(*   Spec     - requests handled one after the other (one action is one    *)
(*              whole request: load, decide, mutate, save);                *)
(*   ConcSpec - requests handled by concurrent threads, each of which      *)
(*              loads the document, runs the handler on its own copy and   *)
(*              writes its copy back.                                      *)
(***************************************************************************)
EXTENDS Integers, Sequences, FiniteSets, TLC

(***************************************************************************)
(* Bounds of the model.                                                    *)
(***************************************************************************)
NumIPs == 2        \* distinct client addresses
NumLetters == 2    \* letters of string.ascii_lowercase used for cookies
MaxCap == 1        \* largest max_ips / max_cookies of a configured page
NumThreads == 2    \* concurrently handled requests (ConcSpec)
MaxServed == 1     \* requests one thread handles (ConcSpec)

(***************************************************************************)
(* Strings.                                                                *)
(***************************************************************************)
None == << -1 >>                 \* Python's None: equal to no string
EmptyStr == << >>                \* ''

Str_a == << 97 >>
Str_b == << 98 >>
Str_x == << 120 >>
Str_y == << 121 >>
Str_z == << 122 >>
Str_A == << 65 >>
Str_B == << 66 >>
Str_X == << 88 >>

\* str.lower() on ASCII strings
LowerChar(c) == IF c >= 65 /\ c <= 90 THEN c + 32 ELSE c
Lower(s) == [i \in 1..Len(s) |-> LowerChar(s[i])]

\* s < t in Python's string order (lexicographic by code point)
RECURSIVE StrLess(_, _)
StrLess(s, t) ==
    IF t = << >> THEN FALSE
    ELSE IF s = << >> THEN TRUE
    ELSE IF Head(s) # Head(t) THEN Head(s) < Head(t)
    ELSE StrLess(Tail(s), Tail(t))

\* x in lst, for a Python list
InList(x, lst) == \E i \in 1..Len(lst) : lst[i] = x

IPs == 1..NumIPs

\* the strings ''.join(random.choices(string.ascii_lowercase, k=30)) can
\* return; a string of 30 letters is abbreviated to its first letter
GeneratedCookies == { << c >> : c \in 97..(97 + NumLetters - 1) }

(***************************************************************************)
(* class ForbiddenReason(Enum).  The class body is the sequence of         *)
(* declarations; a declaration whose value was already declared is an      *)
(* alias of the first member with that value (enum semantics).             *)
(***************************************************************************)
ForbiddenReason ==
    << [name |-> "NO_NAME",             value |-> 1],
       [name |-> "NO_PAGE",             value |-> 2],
       [name |-> "IP_ALREADY_USED",     value |-> 3],
       [name |-> "MAX_IPS_REACHED",     value |-> 4],
       [name |-> "COOKIE_ALREADY_USED", value |-> 5],
       [name |-> "INVALID_COOKIE",      value |-> 6],
       [name |-> "MAX_COOKIES_REACHED", value |-> 6] >>

\* the value declared under the name attr
DeclaredValue(attr) ==
    ForbiddenReason[CHOOSE i \in 1..Len(ForbiddenReason) :
                        ForbiddenReason[i].name = attr].value

\* the member with value v: the first declaration of that value
MemberOfValue(v) ==
    ForbiddenReason[CHOOSE i \in 1..Len(ForbiddenReason) :
                        /\ ForbiddenReason[i].value = v
                        /\ \A j \in 1..(i - 1) : ForbiddenReason[j].value # v]

\* ForbiddenReason.<attr>: the member the attribute is bound to
Member(attr) == MemberOfValue(DeclaredValue(attr))

\* list(ForbiddenReason): the members of the enumeration
Members == { Member(ForbiddenReason[i].name) : i \in 1..Len(ForbiddenReason) }

(***************************************************************************)
(* The configuration document and its (de)serialisation.                   *)
(***************************************************************************)
\* index of the entry with key n in the document, 0 if there is none
IndexOf(config, n) ==
    IF \E i \in 1..Len(config) : config[i].name = n
    THEN CHOOSE i \in 1..Len(config) : config[i].name = n
    ELSE 0

\* the keys of config['pages'] in iteration order
Keys(config) == [i \in 1..Len(config) |-> config[i].name]

\* yaml.dump(doc): mapping keys are written in sorted order
RECURSIVE SortByName(_)
SortByName(config) ==
    IF config = << >> THEN << >>
    ELSE LET m == CHOOSE i \in 1..Len(config) :
                      \A j \in 1..Len(config) :
                          j # i => StrLess(config[i].name, config[j].name)
             rest == [k \in 1..(Len(config) - 1) |->
                          IF k < m THEN config[k] ELSE config[k + 1]]
         IN  << config[m] >> \o SortByName(rest)

Dump(doc) == SortByName(doc)

\* yaml.load(file): the mapping in the order of the file
Load(f) == f

(***************************************************************************)
(* The request: request.args.get('name'), request.remote_addr and          *)
(* request.cookies.get('super_secret'); None when the argument or the      *)
(* cookie is absent.                                                       *)
(***************************************************************************)
\* Python truthiness of an optional string
Truthy(s) == s # None /\ s # EmptyStr

\* message['ip_names']: the names of the pages that list remote_ip
ip_names(config, remote_ip) ==
    LET holds(pg) == InList(remote_ip, pg.ips)
    IN  Keys(SelectSeq(config, holds))

\* message['cookie_names']: the names of the pages that list cookie
cookie_names(config, cookie) ==
    LET holds(pg) == InList(cookie, pg.cookies)
    IN  Keys(SelectSeq(config, holds))

\* forbidden(config, reason): the diagnostic that is logged
forbidden(config, request, reason) ==
    [reason       |-> reason.name,
     entered_name |-> IF Truthy(request.name) THEN request.name ELSE None,
     request_ip   |-> request.remote_addr,
     ip_names     |-> ip_names(config, request.remote_addr),
     cookie       |-> request.cookie,
     cookie_names |-> IF Truthy(request.cookie)
                      THEN cookie_names(config, request.cookie)
                      ELSE << >>]

\* the diagnostic of a request that was not rejected: nothing is logged
NoMessage ==
    [reason |-> "", entered_name |-> None, request_ip |-> 0,
     ip_names |-> << >>, cookie |-> None, cookie_names |-> << >>]

\* name resolution: the loop assigns page_item at every match and never breaks
RECURSIVE ResolveFrom(_, _, _, _)
ResolveFrom(config, name, i, page_item) ==
    IF i > Len(config) THEN page_item
    ELSE IF \/ Lower(name) = config[i].name
            \/ InList(Lower(name), config[i].aliases)
         THEN ResolveFrom(config, name, i + 1, config[i].name)
         ELSE ResolveFrom(config, name, i + 1, page_item)

Resolve(config, name) == ResolveFrom(config, name, 1, None)

\* variant of IpUsedElsewhere: the scan of the other pages is left out
IpUsedElsewhere_Skipped(config, page_item, remote_ip) == FALSE

\* remote_ip is in the ips of a page other than page_item
IpUsedElsewhere(config, page_item, remote_ip) ==
    \E i \in 1..Len(config) :
        config[i].name # page_item /\ InList(remote_ip, config[i].ips)

\* config['pages'][page_item]
PageOf(config, page_item) == config[IndexOf(config, page_item)]

\* variant of IpsFullIn: the comparison is > instead of >=
IpsFullIn_OffByOne(pg) == Len(pg.ips) > pg.max_ips

\* len(ips) >= max_ips, for the entry pg of page_item
IpsFullIn(pg) == Len(pg.ips) >= pg.max_ips

IpsFull(config, page_item) == IpsFullIn(PageOf(config, page_item))

\* variant of AppendIp: the address is appended to the ips of every page
AppendIp_Everywhere(config, page_item, remote_ip) ==
    [i \in 1..Len(config) |-> [config[i] EXCEPT !.ips = Append(@, remote_ip)]]

\* config['pages'][page_item]['ips'].append(remote_ip)
AppendIp(config, page_item, remote_ip) ==
    [config EXCEPT ![IndexOf(config, page_item)].ips = Append(@, remote_ip)]

\* cookie is in the cookies of a page other than page_item
CookieUsedElsewhere(config, page_item, cookie) ==
    \E i \in 1..Len(config) :
        config[i].name # page_item /\ InList(cookie, config[i].cookies)

\* len(cookies) >= max_cookies, for the entry pg of page_item
CookiesFullIn(pg) == Len(pg.cookies) >= pg.max_cookies

CookiesFull(config, page_item) == CookiesFullIn(PageOf(config, page_item))

\* config['pages'][page_item]['cookies'].append(cookie)
AppendCookie(config, page_item, cookie) ==
    [config EXCEPT ![IndexOf(config, page_item)].cookies = Append(@, cookie)]

\* a return of forbidden(...) at the given source line
Rejected(config, request, line, attr, page_item) ==
    [exit      |-> line,
     config    |-> config,
     page_item |-> page_item,
     template  |-> None,
     cookie    |-> None,
     message   |-> forbidden(config, request, Member(attr))]

\* the response of line 150-154: the page's template and the cookie set
Admitted(config, page_item, cookie) ==
    [exit      |-> 154,
     config    |-> config,
     page_item |-> page_item,
     template  |-> PageOf(config, page_item).page,
     cookie    |-> cookie,
     message   |-> NoMessage]

\* variant of CookieStep: a presented cookie that is not in the page's own
\* list is added to it instead of being rejected
CookieStep_AddsPresented(config, request, page_item, new_cookie) ==
    LET cookie == request.cookie
        own == PageOf(config, page_item).cookies
    IN  IF Truthy(cookie)
        THEN IF InList(cookie, own)
             THEN Admitted(config, page_item, cookie)
             ELSE Admitted(AppendCookie(config, page_item, cookie),
                           page_item, cookie)
        ELSE IF CookiesFull(config, page_item)
             THEN Rejected(config, request, 145, "MAX_COOKIES_REACHED", page_item)
             ELSE Admitted(AppendCookie(config, page_item, new_cookie),
                           page_item, new_cookie)

\* variant of CookieStep: the scan of the other pages' cookies is left out
CookieStep_SkipsOtherPages(config, request, page_item, new_cookie) ==
    LET cookie == request.cookie
        own == PageOf(config, page_item).cookies
    IN  IF Truthy(cookie)
        THEN IF ~InList(cookie, own)
             THEN Rejected(config, request, 142, "INVALID_COOKIE", page_item)
             ELSE Admitted(config, page_item, cookie)
        ELSE IF CookiesFull(config, page_item)
             THEN Rejected(config, request, 145, "MAX_COOKIES_REACHED", page_item)
             ELSE Admitted(AppendCookie(config, page_item, new_cookie),
                           page_item, new_cookie)

\* variant of CookieStep: a presented cookie is accepted without looking it
\* up in the page's own list
CookieStep_AcceptsUnknown(config, request, page_item, new_cookie) ==
    LET cookie == request.cookie
    IN  IF Truthy(cookie)
        THEN IF CookieUsedElsewhere(config, page_item, cookie)
             THEN Rejected(config, request, 139, "COOKIE_ALREADY_USED", page_item)
             ELSE Admitted(config, page_item, cookie)
        ELSE IF CookiesFull(config, page_item)
             THEN Rejected(config, request, 145, "MAX_COOKIES_REACHED", page_item)
             ELSE Admitted(AppendCookie(config, page_item, new_cookie),
                           page_item, new_cookie)

\* variant of CookieStep: a request rejected for its cookie has its IP taken
\* out of the page's ips again
CookieStep_UnbindsOnReject(config, request, page_item, new_cookie) ==
    LET cookie == request.cookie
        own == PageOf(config, page_item).cookies
        other(ip) == ip # request.remote_addr
        unbound == [config EXCEPT ![IndexOf(config, page_item)].ips =
                                       SelectSeq(@, other)]
    IN  IF Truthy(cookie)
        THEN IF CookieUsedElsewhere(config, page_item, cookie)
             THEN Rejected(unbound, request, 139, "COOKIE_ALREADY_USED", page_item)
             ELSE IF ~InList(cookie, own)
             THEN Rejected(unbound, request, 142, "INVALID_COOKIE", page_item)
             ELSE Admitted(config, page_item, cookie)
        ELSE IF CookiesFull(config, page_item)
             THEN Rejected(unbound, request, 145, "MAX_COOKIES_REACHED", page_item)
             ELSE Admitted(AppendCookie(config, page_item, new_cookie),
                           page_item, new_cookie)

\* the cookie step, on the document as the IP step left it
CookieStep(config, request, page_item, new_cookie) ==
    LET cookie == request.cookie
        own == PageOf(config, page_item).cookies
    IN  IF Truthy(cookie)
        THEN IF CookieUsedElsewhere(config, page_item, cookie)
             THEN Rejected(config, request, 139, "COOKIE_ALREADY_USED", page_item)
             ELSE IF ~InList(cookie, own)
             THEN Rejected(config, request, 142, "INVALID_COOKIE", page_item)
             ELSE Admitted(config, page_item, cookie)
        ELSE IF CookiesFull(config, page_item)
             THEN Rejected(config, request, 145, "MAX_COOKIES_REACHED", page_item)
             ELSE Admitted(AppendCookie(config, page_item, new_cookie),
                           page_item, new_cookie)

\* variant of IpStep: the capacity of the page is checked for every request,
\* also when its IP is already in the list
IpStep_AlwaysChecksCapacity(config, request, page_item, new_cookie) ==
    LET remote_ip == request.remote_addr
        own == PageOf(config, page_item).ips
    IN  IF ~InList(remote_ip, own) /\ IpUsedElsewhere(config, page_item, remote_ip)
        THEN Rejected(config, request, 125, "IP_ALREADY_USED", page_item)
        ELSE IF IpsFull(config, page_item)
        THEN Rejected(config, request, 128, "MAX_IPS_REACHED", page_item)
        ELSE IF InList(remote_ip, own)
        THEN CookieStep(config, request, page_item, new_cookie)
        ELSE CookieStep(AppendIp(config, page_item, remote_ip),
                        request, page_item, new_cookie)

\* the IP step, followed by the cookie step
IpStep(config, request, page_item, new_cookie) ==
    LET remote_ip == request.remote_addr
        own == PageOf(config, page_item).ips
    IN  IF InList(remote_ip, own)
        THEN CookieStep(config, request, page_item, new_cookie)
        ELSE IF IpUsedElsewhere(config, page_item, remote_ip)
        THEN Rejected(config, request, 125, "IP_ALREADY_USED", page_item)
        ELSE IF IpsFull(config, page_item)
        THEN Rejected(config, request, 128, "MAX_IPS_REACHED", page_item)
        ELSE CookieStep(AppendIp(config, page_item, remote_ip),
                        request, page_item, new_cookie)

\* variant of page: a request without name goes on to name resolution
page_SkipsNameCheck(config, request, new_cookie) ==
    LET page_item == Resolve(config, request.name)
    IN  IF page_item = None \/ page_item = EmptyStr
        THEN Rejected(config, request, 116, "NO_PAGE", page_item)
        ELSE IpStep(config, request, page_item, new_cookie)

\* the body of page() on the loaded document; new_cookie is the value that
\* random.choices returns if the handler gets to draw one
page(config, request, new_cookie) ==
    IF request.name = None
    THEN Rejected(config, request, 105, "NO_NAME", None)
    ELSE LET page_item == Resolve(config, request.name)
         IN  IF page_item = None \/ page_item = EmptyStr
             THEN Rejected(config, request, 116, "NO_PAGE", page_item)
             ELSE IpStep(config, request, page_item, new_cookie)

(***************************************************************************)
(* Configurations and requests the model draws from.                       *)
(***************************************************************************)
\* the operator-written part of a page entry
Entry(n, al, tpl) == [name |-> n, aliases |-> al, page |-> tpl]

Layouts ==
    { \* keys not in sorted order, nothing overlaps
      << Entry(Str_b, << Str_y >>, 2), Entry(Str_a, << Str_x >>, 1) >>,
      \* the alias x is listed under both pages
      << Entry(Str_a, << Str_x >>, 1), Entry(Str_b, << Str_x >>, 2) >>,
      \* a key and an alias written with capital letters
      << Entry(Str_a, << Str_X >>, 1), Entry(Str_B, << Str_y >>, 2) >> }

Caps == 0..MaxCap

\* a layout in which every page has the capacities mi and mc, and no
\* bindings yet
Configure(layout, mi, mc) ==
    [i \in 1..Len(layout) |->
        [name |-> layout[i].name, aliases |-> layout[i].aliases,
         page |-> layout[i].page,
         ips |-> << >>, max_ips |-> mi,
         cookies |-> << >>, max_cookies |-> mc]]

InitialConfigs ==
    { Configure(l, mi, mc) : l \in Layouts, mi \in Caps, mc \in Caps }

RequestNames == { None, EmptyStr, Str_a, Str_A, Str_b, Str_B, Str_x, Str_z }

RequestCookies == { None, EmptyStr } \cup GeneratedCookies

Requests ==
    [name : RequestNames, remote_addr : IPs, cookie : RequestCookies]

NoRequest == [name |-> None, remote_addr |-> 0, cookie |-> None]

NoResult ==
    [exit |-> 0, config |-> << >>, page_item |-> None, template |-> None,
     cookie |-> None, message |-> NoMessage]

(***************************************************************************)
(* open_config with its failures.  config.yaml may be impossible to open   *)
(* (path.open raises on line 194), may not be YAML (yaml.load raises on    *)
(* line 195, before the try), or may be empty, which yaml.load turns into  *)
(* None; and the lines after the appends may raise while the document is   *)
(* held.                                                                   *)
(***************************************************************************)
StoreConditions == { "ok", "unreadable", "malformed", "null" }

\* what can raise after line 148: render_template on line 150 when the
\* template of the page does not exist, exp.replace on line 152 when today
\* is the 29th of February; 0 when nothing raises
AdmitFaults == { 0, 150, 152 }

\* the request ends with an exception raised on the given line: no response
\* of the handler, no cookie set, nothing logged
Raised(config, line, page_item) ==
    [exit      |-> line,
     config    |-> config,
     page_item |-> page_item,
     template  |-> None,
     cookie    |-> None,
     message   |-> NoMessage]

\* the body of page() on a document that is None: config['pages'] raises
\* TypeError, on line 168 inside forbidden() (before anything is logged) when
\* there is no name, on line 111 otherwise
page_OnNone(request) ==
    IF request.name = None
    THEN Raised(<< >>, 168, None)
    ELSE Raised(<< >>, 111, None)

\* lines 150-154 of page(), which follow the appends
Respond(r, fault) ==
    IF r.exit = 154 /\ fault # 0
    THEN Raised(r.config, fault, r.page_item)
    ELSE r

\* path.open or yaml.load raised: the body and the finally clause do not run
NotOpened(f, line) ==
    [result |-> Raised(<< >>, line, None), file |-> f, written |-> 0]

\* the finally clause, lines 198-201: the document is written once, however
\* the body ended
Finally(r) ==
    [result |-> r, file |-> Dump(r.config), written |-> 1]

\* variant of open_config: the document is written after the yield and not
\* in a finally clause, so an exception in the body skips the write
open_config_NoFinally(st, f, request, new_cookie, fault) ==
    IF st = "unreadable" THEN NotOpened(f, 194)
    ELSE IF st = "malformed" THEN NotOpened(f, 195)
    ELSE IF st = "null"
    THEN [result |-> page_OnNone(request), file |-> f, written |-> 0]
    ELSE IF fault # 0
    THEN [result |-> Respond(page(Load(f), request, new_cookie), fault),
          file |-> f, written |-> 0]
    ELSE Finally(page(Load(f), request, new_cookie))

\* variant of open_config: a file that cannot be opened or parsed is taken
\* to be a document without pages
open_config_DefaultsOnError(st, f, request, new_cookie, fault) ==
    IF st \in { "unreadable", "malformed", "null" }
    THEN [result |-> page(<< >>, request, new_cookie), file |-> f, written |-> 0]
    ELSE Finally(Respond(page(Load(f), request, new_cookie), fault))

\* one request through `with open_config() as config:` and the body of
\* page(): st is the condition of config.yaml and f the pages written in it
open_config(st, f, request, new_cookie, fault) ==
    IF st = "unreadable" THEN NotOpened(f, 194)
    ELSE IF st = "malformed" THEN NotOpened(f, 195)
    ELSE IF st = "null" THEN Finally(page_OnNone(request))
    ELSE Finally(Respond(page(Load(f), request, new_cookie), fault))

(***************************************************************************)
(* State.                                                                  *)
(***************************************************************************)
VARIABLES
    store,     \* the condition of config.yaml, one of StoreConditions
    written,   \* how often the last request wrote config.yaml
    file,      \* the pages written in config.yaml
    before,    \* Spec: the content of config.yaml when the last request began
    request,   \* Spec: the last request
    result,    \* Spec: what page() returned for it
    threads,   \* ConcSpec: per thread, its position, request, document, result
    admitted   \* ConcSpec: the bindings of the requests that were admitted

vars == << store, written, file, before, request, result, threads, admitted >>

IdleThread ==
    [pc |-> "idle", served |-> 0, request |-> NoRequest, config |-> << >>,
     result |-> NoResult]

Threads == 1..NumThreads

(***************************************************************************)
(* Spec: one request at a time.  open_config loads the file, page() runs,  *)
(* and the finally clause of open_config writes the document back; request *)
(* and result are the request context, which exists until the response is  *)
(* returned.                                                               *)
(***************************************************************************)
Init ==
    /\ store = "ok"
    /\ written = 0
    /\ file \in InitialConfigs
    /\ before = file
    /\ request = NoRequest
    /\ result = NoResult
    /\ threads = [t \in Threads |-> IdleThread]
    /\ admitted = {}

\* the request rq came in, page() returned r and open_config wrote r.config
Served(rq, r) ==
    /\ before' = file
    /\ request' = rq
    /\ result' = r
    /\ file' = Dump(r.config)
    /\ written' = 1
    /\ UNCHANGED << store, threads, admitted >>

Page(rq, new_cookie) == Served(rq, page(Load(file), rq, new_cookie))

\* r is the result of a run of page() that reached line 147 and drew a cookie
Drew(rq, r) == r.exit = 154 /\ ~Truthy(rq.cookie)

\* random.choices is called only on line 147: the requests that get there
\* branch over the value drawn, r0 being the run with some value drawn
PageFrom(rq, r0) ==
    IF Drew(rq, r0)
    THEN \E new_cookie \in GeneratedCookies : Page(rq, new_cookie)
    ELSE Served(rq, r0)

\* the handler of the route /page, for the request rq
PageRoute(rq) ==
    /\ request = NoRequest
    /\ PageFrom(rq, page(Load(file), rq, CHOOSE c \in GeneratedCookies : TRUE))

\* the response is sent and the request context is gone
Return ==
    /\ request # NoRequest
    /\ request' = NoRequest
    /\ result' = NoResult
    /\ before' = file
    /\ written' = 0
    /\ UNCHANGED << store, file, threads, admitted >>

Next ==
    \/ \E rq \in Requests : PageRoute(rq)
    \/ Return

Spec == Init /\ [][Next]_vars

(***************************************************************************)
(* ConcSpec: the server handles requests in concurrent threads.            *)
(* open_config takes no lock: every thread loads the file into a document  *)
(* of its own, page() works on that document, and the finally clause       *)
(* overwrites the file with it.                                            *)
(***************************************************************************)
ConcLayouts ==
    { << Entry(Str_b, << Str_y >>, 2), Entry(Str_a, << Str_x >>, 1) >> }

ConcInitialConfigs ==
    { Configure(l, mi, mc) : l \in ConcLayouts, mi \in Caps, mc \in Caps }

ConcRequests ==
    [name : { Str_a, Str_b }, remote_addr : IPs,
     cookie : { None } \cup GeneratedCookies]

ConcInit ==
    /\ store = "ok"
    /\ written = 0
    /\ file \in ConcInitialConfigs
    /\ before = file
    /\ request = NoRequest
    /\ result = NoResult
    /\ threads = [t \in Threads |-> IdleThread]
    /\ admitted = {}

\* with open_config() as config: the thread holds the loaded document
Open(t, rq) ==
    /\ threads[t].pc = "idle"
    /\ threads[t].served < MaxServed
    /\ threads' = [threads EXCEPT ![t].pc = "loaded",
                                  ![t].served = @ + 1,
                                  ![t].request = rq,
                                  ![t].config = Load(file)]
    /\ UNCHANGED << store, written, file, before, request, result, admitted >>

\* page() returned r
Returned(t, r) ==
    /\ threads' = [threads EXCEPT ![t].pc = "returned",
                                  ![t].config = r.config,
                                  ![t].result = r]
    /\ UNCHANGED << store, written, file, before, request, result, admitted >>

RunWith(t, new_cookie) ==
    Returned(t, page(threads[t].config, threads[t].request, new_cookie))

RunFrom(t, r0) ==
    IF Drew(threads[t].request, r0)
    THEN \E new_cookie \in GeneratedCookies : RunWith(t, new_cookie)
    ELSE Returned(t, r0)

\* the body of the with statement, on the thread's own document
Run(t) ==
    /\ threads[t].pc = "loaded"
    /\ RunFrom(t, page(threads[t].config, threads[t].request,
                       CHOOSE c \in GeneratedCookies : TRUE))

\* the binding an admitted request was granted
Binding(rq, r) == [page |-> r.page_item, ip |-> rq.remote_addr, cookie |-> r.cookie]

\* the finally clause of open_config: seek(0), truncate, write(yaml.dump(doc)),
\* taken as one step (the file is never seen half written)
Release(t) ==
    /\ threads[t].pc = "returned"
    /\ file' = Dump(threads[t].config)
    /\ admitted' = IF threads[t].result.exit = 154
                   THEN admitted \cup { Binding(threads[t].request, threads[t].result) }
                   ELSE admitted
    /\ threads' = [threads EXCEPT ![t].pc = "idle", ![t].config = << >>]
    /\ UNCHANGED << store, written, before, request, result >>

ConcNext ==
    \E t \in Threads :
        \/ \E rq \in ConcRequests : Open(t, rq)
        \/ Run(t)
        \/ Release(t)

ConcSpec == ConcInit /\ [][ConcNext]_vars

(***************************************************************************)
(* FaultSpec: one request at a time, as in Spec, with config.yaml in any   *)
(* of its conditions and with the exceptions that lines 150 and 152 can    *)
(* raise.                                                                  *)
(***************************************************************************)
FaultLayouts ==
    { << Entry(Str_b, << Str_y >>, 2), Entry(Str_a, << Str_x >>, 1) >> }

FaultInitialConfigs ==
    { Configure(l, mi, mc) : l \in FaultLayouts, mi \in Caps, mc \in Caps }

\* an empty config.yaml has no pages
FaultInit ==
    /\ store \in StoreConditions
    /\ written = 0
    /\ file \in IF store = "null" THEN { << >> } ELSE FaultInitialConfigs
    /\ before = file
    /\ request = NoRequest
    /\ result = NoResult
    /\ threads = [t \in Threads |-> IdleThread]
    /\ admitted = {}

\* the request rq ended as o says
Outcome(rq, o) ==
    /\ before' = file
    /\ request' = rq
    /\ result' = o.result
    /\ file' = o.file
    /\ written' = o.written
    /\ UNCHANGED << store, threads, admitted >>

\* lines 147 and 150-152 are reached only by the requests that are admitted:
\* these branch over the cookie drawn and over what raises, o0 being the run
\* in which some cookie is drawn and nothing raises
OutcomeFrom(rq, o0) ==
    IF o0.result.exit = 154
    THEN \E new_cookie \in IF Drew(rq, o0.result)
                            THEN GeneratedCookies
                            ELSE { CHOOSE c \in GeneratedCookies : TRUE },
            fault \in AdmitFaults :
             Outcome(rq, open_config(store, file, rq, new_cookie, fault))
    ELSE Outcome(rq, o0)

\* the handler of the route /page, for the request rq
FaultRoute(rq) ==
    /\ request = NoRequest
    /\ OutcomeFrom(rq, open_config(store, file, rq,
                                   CHOOSE c \in GeneratedCookies : TRUE, 0))

FaultRequests ==
    [name : { None, Str_a, Str_b, Str_z }, remote_addr : IPs,
     cookie : RequestCookies]

FaultNext ==
    \/ \E rq \in FaultRequests : FaultRoute(rq)
    \/ Return

FaultSpec == FaultInit /\ [][FaultNext]_vars

(***************************************************************************)
(* Properties.                                                             *)
(***************************************************************************)
\* the positions of the pages of doc that list ip / cookie
PagesWithIp(doc, ip) == { i \in 1..Len(doc) : InList(ip, doc[i].ips) }
PagesWithCookie(doc, c) == { i \in 1..Len(doc) : InList(c, doc[i].cookies) }

\* every string that can be in a cookies list
AllCookies == GeneratedCookies \cup { EmptyStr }

\* the source lines at which page() returns forbidden(...)
RejectLines == { 105, 116, 125, 128, 139, 142, 145 }

\* the last request was served and its name resolved to a page
Resolved == result.exit \in { 125, 128, 139, 142, 145, 154 }

\* the last request got past the IP step
PassedIpStep == result.exit \in { 139, 142, 145, 154 }

\* the entry, before the last request, of the page it resolved to
PageBefore == PageOf(before, result.page_item)

\* the entry, after the last request, of the page it resolved to
PageAfter == PageOf(file, result.page_item)

\* C1: after any sequence of requests, no IP is in the ips list of more than
\* one page.
C1_IpInOnePage ==
    \A ip \in IPs : Cardinality(PagesWithIp(file, ip)) <= 1

\* a request for one page came from an IP that is bound to another page
C1_Witness ==
    /\ result.exit = 125
    /\ PagesWithIp(file, request.remote_addr) # {}
    /\ \E ip \in IPs : ip # request.remote_addr /\ PagesWithIp(file, ip) # {}

\* C2: after any sequence of requests, no cookie value is in the cookies list
\* of more than one page, generated cookies included.
C2_CookieInOnePage ==
    \A c \in AllCookies : Cardinality(PagesWithCookie(file, c)) <= 1

\* C2, amended: a request puts a cookie value under a second page only by
\* drawing, for a request without cookie, a value that is already listed
\* under another page; a presented cookie is never added to a list.
C2_OnlyDrawCollides ==
    \A c \in AllCookies :
        ( /\ Cardinality(PagesWithCookie(file, c)) > 1
          /\ Cardinality(PagesWithCookie(before, c)) <= 1 )
        => /\ result.exit = 154
           /\ ~Truthy(request.cookie)
           /\ result.cookie = c
           /\ PagesWithCookie(before, c) # {}

\* a cookie that is listed under one page was presented with a request for
\* another page and was not added to it
C2_Witness ==
    /\ result.exit = 139
    /\ Cardinality(PagesWithCookie(file, request.cookie)) = 1
    /\ ~InList(request.cookie, PageAfter.cookies)

\* C3: a rejected request leaves the ips and cookies lists of every page of
\* the persisted document as they were before the request.
C3_RejectionLeavesLists ==
    result.exit \in RejectLines =>
        \A i \in 1..Len(file) :
            /\ file[i].ips = PageOf(before, file[i].name).ips
            /\ file[i].cookies = PageOf(before, file[i].name).cookies

\* C6: len(ips) <= max_ips for every page; a request for a page whose ips
\* list is full, from an IP not in that list, is not admitted, and is rejected
\* with MAX_IPS_REACHED when the IP is bound to no other page; an IP that is
\* in the list passes the IP step.
C6_IpCapacity ==
    /\ \A i \in 1..Len(file) : Len(file[i].ips) <= file[i].max_ips
    /\ Resolved =>
        /\ ( /\ Len(PageBefore.ips) = PageBefore.max_ips
             /\ ~InList(request.remote_addr, PageBefore.ips) )
           => /\ result.exit # 154
              /\ PagesWithIp(before, request.remote_addr) = {}
                    => /\ result.exit = 128
                       /\ result.message.reason = "MAX_IPS_REACHED"
        /\ InList(request.remote_addr, PageBefore.ips) => PassedIpStep

\* a page with a bound IP is full and a request from another, unbound IP was
\* rejected
C6_Witness ==
    /\ result.exit = 128
    /\ PageBefore.max_ips >= 1
    /\ Len(PageBefore.ips) = PageBefore.max_ips
    /\ PagesWithIp(before, request.remote_addr) = {}

\* C7: len(cookies) <= max_cookies for every page; a request that passes the
\* IP step without a cookie is rejected with MAX_COOKIES_REACHED when the
\* page's cookies list is full, and otherwise exactly one new cookie is
\* appended to the page.
C7_CookieCapacity ==
    /\ \A i \in 1..Len(file) : Len(file[i].cookies) <= file[i].max_cookies
    /\ (PassedIpStep /\ request.cookie = None) =>
          IF Len(PageBefore.cookies) >= PageBefore.max_cookies
          THEN /\ result.exit \in RejectLines
               /\ result.message.reason = "MAX_COOKIES_REACHED"
          ELSE /\ result.exit = 154
               /\ PageAfter.cookies = Append(PageBefore.cookies, result.cookie)

\* the condition that fires at each rejecting return of page()
ConditionAt(line) ==
    CASE line = 105 -> "NO_NAME"
      [] line = 116 -> "NO_PAGE"
      [] line = 125 -> "IP_ALREADY_USED"
      [] line = 128 -> "MAX_IPS_REACHED"
      [] line = 139 -> "COOKIE_ALREADY_USED"
      [] line = 142 -> "INVALID_COOKIE"
      [] line = 145 -> "MAX_COOKIES_REACHED"

\* C8: the taxonomy has seven kinds with pairwise distinct values, and the
\* reason recorded for a rejection names the condition that fired.
C8_ReasonIdentifiesCondition ==
    /\ result.exit \in { 142, 145 } => Cardinality(Members) = 7
    /\ result.exit \in RejectLines =>
        /\ \A line \in RejectLines \ { result.exit } :
               DeclaredValue(ConditionAt(line)) # DeclaredValue(ConditionAt(result.exit))
        /\ result.message.reason = ConditionAt(result.exit)

\* the positions of the pages of doc whose name or one of whose aliases
\* equals name when letter case is ignored on both sides
MatchIgnoringCase(doc, name) ==
    { i \in 1..Len(doc) :
        \/ Lower(doc[i].name) = Lower(name)
        \/ \E k \in 1..Len(doc[i].aliases) : Lower(doc[i].aliases[k]) = Lower(name) }

\* C9: a request whose name equals, ignoring case, a page's name or alias
\* resolves to such a page; a request whose name matches none is rejected
\* with NO_PAGE.
C9_CaseInsensitiveResolution ==
    (result.exit # 0 /\ request.name # None) =>
        IF MatchIgnoringCase(before, request.name) # {}
        THEN /\ Resolved
             /\ IndexOf(before, result.page_item)
                    \in MatchIgnoringCase(before, request.name)
        ELSE /\ result.exit = 116
             /\ result.message.reason = "NO_PAGE"

\* the positions of the pages of doc that the comparison of line 112 accepts
MatchOfLine112(doc, name) ==
    { i \in 1..Len(doc) :
        Lower(name) = doc[i].name \/ InList(Lower(name), doc[i].aliases) }

\* C10: when the name matches more than one page, the request resolves to the
\* first of them in iteration order.
C10_FirstMatchWins ==
    ( /\ result.exit # 0
      /\ request.name # None
      /\ Cardinality(MatchOfLine112(before, request.name)) > 1 )
    => \A i \in MatchOfLine112(before, request.name) :
           IndexOf(before, result.page_item) <= i

\* the cookie of the last request is listed, before the request, under a
\* page other than the one the request resolved to
CookieOfOtherPage ==
    \E i \in 1..Len(before) :
        /\ before[i].name # result.page_item
        /\ InList(request.cookie, before[i].cookies)

\* C11: a request that passes name resolution and the IP step and presents a
\* cookie that is listed under a different page is rejected with
\* COOKIE_ALREADY_USED, whether or not the cookie is in the page's own list.
C11_CookieOfOtherPageRejected ==
    (PassedIpStep /\ request.cookie # None /\ CookieOfOtherPage) =>
        /\ result.exit = 139
        /\ result.message.reason = "COOKIE_ALREADY_USED"

\* a cookie generated for one page was presented with a request for another
\* page, whose own list does not have it
C11_Witness ==
    /\ result.exit = 139
    /\ CookieOfOtherPage
    /\ ~InList(request.cookie, PageBefore.cookies)

\* the two documents are equal as mappings: the same keys with the same
\* entries, in whatever order
SameMapping(d1, d2) ==
    /\ { d1[i].name : i \in 1..Len(d1) } = { d2[i].name : i \in 1..Len(d2) }
    /\ \A i \in 1..Len(d1) : d1[i] = PageOf(d2, d1[i].name)

\* the cookies lists of all pages are as they were before the last request
CookiesUntouched ==
    \A i \in 1..Len(file) :
        file[i].cookies = PageOf(before, file[i].name).cookies

\* C12, as claimed: a request that passes name resolution and the IP step
\* and presents a cookie (any value of the cookie header) that is in no
\* page's list is rejected with INVALID_COOKIE, and no list gets the cookie.
C12_UnknownCookieRejected ==
    ( /\ PassedIpStep
      /\ request.cookie # None
      /\ PagesWithCookie(before, request.cookie) = {} )
    => /\ result.exit = 142
       /\ result.message.reason = "INVALID_COOKIE"
       /\ CookiesUntouched

\* C12, amended: the same for a cookie that is not the empty string; and no
\* request that presents such a cookie changes any cookies list.
C12_NonEmptyUnknownCookieRejected ==
    /\ ( /\ PassedIpStep
         /\ Truthy(request.cookie)
         /\ PagesWithCookie(before, request.cookie) = {} )
       => /\ result.exit = 142
          /\ result.message.reason = "INVALID_COOKIE"
    /\ (result.exit # 0 /\ Truthy(request.cookie)) => CookiesUntouched

\* a page that has a cookie was asked for with another, unlisted cookie
C12_Witness ==
    /\ result.exit = 142
    /\ PageBefore.cookies # << >>
    /\ PagesWithCookie(file, request.cookie) = {}

BindingsKept(d1, d2) ==
    \A i \in 1..Len(d1) :
        /\ IndexOf(d2, d1[i].name) # 0
        /\ \A k \in 1..Len(d1[i].ips) :
               InList(d1[i].ips[k], PageOf(d2, d1[i].name).ips)
        /\ \A k \in 1..Len(d1[i].cookies) :
               InList(d1[i].cookies[k], PageOf(d2, d1[i].name).cookies)

\* C14: bindings are permanent: no step of a sequence of requests takes an IP
\* or a cookie out of the list of the page it is in.
C14_BindingsPermanent == [][BindingsKept(file, file')]_vars

\* a request was served when a page already had an IP and a cookie, and the
\* page still has both
C14_Witness ==
    /\ result.exit # 0
    /\ \E i \in 1..Len(before) :
          /\ before[i].ips # << >>
          /\ before[i].cookies # << >>
          /\ InList(before[i].ips[1], PageOf(file, before[i].name).ips)
          /\ InList(before[i].cookies[1], PageOf(file, before[i].name).cookies)

\* C17: a load and save without admission (the handler changed nothing in
\* the loaded document) leaves the file as it was, pages and list entries in
\* the same order.
C17_RoundTripKeepsOrder ==
    (result.exit # 0 /\ result.config = before) => file = before

\* the reason the checks give when they run in the claimed order on the
\* document as it was before the last request, "" when none fails; the page
\* is the one the request resolved to
ReasonInOrder ==
    IF request.name = None THEN "NO_NAME"
    ELSE IF MatchOfLine112(before, request.name) = {} THEN "NO_PAGE"
    ELSE IF /\ ~InList(request.remote_addr, PageBefore.ips)
            /\ PagesWithIp(before, request.remote_addr) # {}
         THEN "IP_ALREADY_USED"
    ELSE IF /\ ~InList(request.remote_addr, PageBefore.ips)
            /\ Len(PageBefore.ips) >= PageBefore.max_ips
         THEN "MAX_IPS_REACHED"
    ELSE IF Truthy(request.cookie)
         THEN IF CookieOfOtherPage THEN "COOKIE_ALREADY_USED"
              ELSE IF ~InList(request.cookie, PageBefore.cookies)
                   THEN "INVALID_COOKIE"
                   ELSE ""
         ELSE IF Len(PageBefore.cookies) >= PageBefore.max_cookies
              THEN "MAX_COOKIES_REACHED"
              ELSE ""

\* C18: the checks run in the order NO_NAME, NO_PAGE, IP_ALREADY_USED,
\* MAX_IPS_REACHED, then COOKIE_ALREADY_USED before INVALID_COOKIE for a
\* presented cookie or MAX_COOKIES_REACHED without cookie, and the first that
\* fails is the reason of the rejection.
C18_FirstFailingCheckDecides ==
    result.exit # 0 => result.message.reason = ReasonInOrder

\* the last request reuses its bindings: its IP and its cookie are listed
\* under the page it resolved to, the cookie under no other page
ReusesBindings ==
    /\ Resolved
    /\ InList(request.remote_addr, PageBefore.ips)
    /\ InList(request.cookie, PageBefore.cookies)
    /\ ~CookieOfOtherPage

ErrorLines == { 111, 150, 152, 168, 194, 195 }

\* the last request got the document from open_config
Acquired == result.exit \notin { 0, 194, 195 }

\* C15: a request that acquires the document writes it back exactly once
\* before it ends, whether it is admitted, rejected or ends with an error
\* raised while the document is held; what is written is the document as the
\* handler left it.
C15_WrittenBackOnce ==
    Acquired => written = 1 /\ file = Dump(result.config)

\* an exception was raised after a binding was appended, and the document
\* with the binding was written
C15_Witness ==
    /\ result.exit \in { 150, 152 }
    /\ written = 1
    /\ file = Dump(result.config)
    /\ ~SameMapping(file, before)

Holders == { t \in Threads : threads[t].pc # "idle" }

\* the IPs / cookies granted for the page named n
GrantedIps(n) == { a.ip : a \in { b \in admitted : b.page = n } }
GrantedCookies(n) == { a.cookie : a \in { b \in admitted : b.page = n } }

\* C4: of the concurrent requests that compete for the last free IP slot or
\* the last free cookie slot of a page at most one is admitted: no page
\* grants more distinct IPs or cookies than it has slots.
C4_ScarceSlotGrantedOnce ==
    \A i \in 1..Len(file) :
        /\ Cardinality(GrantedIps(file[i].name)) <= file[i].max_ips
        /\ Cardinality(GrantedCookies(file[i].name)) <= file[i].max_cookies

\* C4, second clause: the load-decide-mutate-save cycle of one request does
\* not overlap with that of another (at most one thread holds the document).
C4_CyclesDoNotOverlap == Cardinality(Holders) <= 1

\* C5: once all requests have completed, the persisted document holds the IP
\* and the cookie of every request that was admitted.
C5_NoLostUpdate ==
    Holders = {} =>
        \A a \in admitted :
            /\ InList(a.ip, PageOf(file, a.page).ips)
            /\ InList(a.cookie, PageOf(file, a.page).cookies)

====
